---- MODULE Spec2Model ----
(***************************************************************************)
(* Model of salt/utils/etcd_util.py: the EtcdClient facade over the        *)
(* python-etcd transport.  Strings are sequences of one-character strings  *)
(* so that strip, format and split are computed and not assumed.           *)
(***************************************************************************)
EXTENDS Integers, Sequences, FiniteSets, TLC

\* store:  the nodes of the etcd store behind self.client, by key
\* index:  the store's index; a write or delete gives it to the node it changes
\* call:   the call of the client in progress: its arguments, the transport
\*         calls it made and what it returned or raised
\* stored: the last update that stored a whole tree under a fresh base path
VARIABLES store, index, call, stored

vars == <<store, index, call, stored>>

(* ------------------------------ bounds --------------------------------- *)

\* the store's global index stops growing here
MaxIndex == 3

\* update is called while the store's index is below this
MaxUpdateIndex == 2

\* path segments and leaf values
Segs == {<<"a">>, <<"b">>}

Values == {"v1", "v2"}

\* the nested trees handed to update: maps from segments to a value or a tree
TreesOver(sub) == UNION {[S -> sub] : S \in SUBSET Segs}

Leaves == {[str |-> v] : v \in Values}

Trees1 == TreesOver({[str |-> "v1"]})

Trees2 == TreesOver(Leaves \cup {[dict |-> t] : t \in Trees1})

Fields == {[dict |-> t] : t \in Trees2} \cup Leaves \cup {[none |-> TRUE]}

(* --------------------------- python values ----------------------------- *)

PyNone == [none |-> TRUE]

PyStr(s) == [str |-> s]

PyBool(b) == [bool |-> b]

PyDict(f) == [dict |-> f]

EmptyMap == [x \in {} |-> x]

IsDict(v) == "dict" \in DOMAIN v

Ret(v) == [tag |-> "return", val |-> v]

Raise(e) == [tag |-> "raise", exc |-> e]

(* ------------------------------ strings -------------------------------- *)

RECURSIVE LStrip(_)
LStrip(s) == IF s # <<>> /\ Head(s) = "/" THEN LStrip(Tail(s)) ELSE s

RECURSIVE RStrip(_)
RStrip(s) == IF s # <<>> /\ s[Len(s)] = "/" THEN RStrip(SubSeq(s, 1, Len(s) - 1)) ELSE s

\* str.strip("/")
Strip(s) == RStrip(LStrip(s))

\* index of the last "/" of s, 0 when there is none
RECURSIVE LastSlash(_, _)
LastSlash(s, i) == IF i = 0 THEN 0 ELSE IF s[i] = "/" THEN i ELSE LastSlash(s, i - 1)

\* str(key).split("/")[-1]
LastComp(s) == SubSeq(s, LastSlash(s, Len(s)) + 1, Len(s))

\* the key of the directory that holds key; <<>> is the root
Parent(k) == SubSeq(k, 1, LastSlash(k, Len(k)) - 1)

IsAncestor(a, k) == /\ Len(a) < Len(k)
                    /\ SubSeq(k, 1, Len(a)) = a
                    /\ k[Len(a) + 1] = "/"

RECURSIVE Ancestors(_)
Ancestors(k) == IF Parent(k) = <<>> THEN {} ELSE {Parent(k)} \cup Ancestors(Parent(k))

Keys1 == {<<"/">> \o s : s \in Segs}

Keys2 == {k \o <<"/">> \o s : k \in Keys1, s \in Segs}

Keys == Keys1 \cup Keys2

(* ------------------------ the store and transport ---------------------- *)

Item(st, k) == [key |-> k, value |-> st[k].value, dir |-> st[k].dir,
                modifiedIndex |-> st[k].modifiedIndex]

\* EtcdResult.children: the nodes directly below key, or the node itself
\* when it has none (a leaf or an empty directory)
Children(st, key) ==
    LET kids == {k \in DOMAIN st : Parent(k) = key}
    IN  IF kids = {} THEN {Item(st, key)} ELSE {Item(st, k) : k \in kids}

Result(st, k) == [key |-> k, value |-> st[k].value, dir |-> st[k].dir,
                  modifiedIndex |-> st[k].modifiedIndex,
                  children |-> Children(st, k)]

ReadFaults == {"EtcdConnectionFailed", "MaxRetryError", "ReadTimeoutError",
               "ValueError", "EtcdException", "Exception"}

\* client.read(key, wait=False): the node, key-not-found, or a fault
ClientRead(st, key, net) ==
    IF net # "ok" THEN [kind |-> net]
    ELSE IF key \in DOMAIN st THEN [kind |-> "result", node |-> Result(st, key)]
    ELSE [kind |-> "EtcdKeyNotFound"]

\* client.read(key, wait=True): a change of key (of key or a node below it
\* when recursive) at or after waitIndex, no result, or a fault
ClientWait(st, key, recursive, waitIndex) ==
    {[kind |-> "result", node |-> Result(st, k)] :
        k \in {c \in DOMAIN st : /\ c = key \/ (recursive /\ IsAncestor(key, c))
                                 /\ st[c].modifiedIndex >= waitIndex}}
    \cup {[kind |-> "none"]}
    \cup {[kind |-> f] : f \in ReadFaults}

(* ------------------------------ read ----------------------------------- *)

\* variant: the handler does not look at wait
OnReadTimeoutAlwaysFailed(wait) == Raise("EtcdConnectionFailed")

\* the handler of ReadTimeoutError
OnReadTimeout(wait) ==
    IF wait THEN Raise("EtcdUtilWatchTimeout") ELSE Raise("EtcdConnectionFailed")

read(key, wait, out) ==
    CASE out.kind = "result" -> Ret(out.node)
      [] out.kind = "none" -> Ret(PyNone)
      [] out.kind \in {"EtcdConnectionFailed", "EtcdKeyNotFound"} -> Raise(out.kind)
      [] out.kind = "ReadTimeoutError" -> OnReadTimeout(wait)
      [] out.kind = "MaxRetryError" -> Raise("EtcdConnectionFailed")
      [] out.kind = "EtcdException" -> Raise("EtcdException")
      [] out.kind = "ValueError" -> Raise("ValueError")
      [] OTHER -> Raise(out.kind)

ReadLog(key, recursive, wait, waitIndex, out) ==
    [key |-> key, recursive |-> recursive, wait |-> wait,
     waitIndex |-> waitIndex, out |-> out.kind,
     got |-> IF out.kind = "result" THEN out.node.key ELSE <<>>,
     res |-> LET r == read(key, wait, out)
             IN IF r.tag = "raise" THEN r.exc ELSE "return"]

(* ------------------------------ watch ---------------------------------- *)

WatchRet(key, value, changed, mIndex, dir) ==
    PyDict([key |-> key, value |-> value, changed |-> changed,
            mIndex |-> mIndex, dir |-> dir])

\* variant: the fallback leaves mIndex at its initial 0
WatchFallbackKeepsIndex(key, r2) ==
    IF r2.tag = "raise" THEN
        IF r2.exc = "EtcdKeyNotFound"
        THEN Ret(WatchRet(key, PyNone, FALSE, 0, FALSE))
        ELSE IF r2.exc = "ValueError" THEN Ret(PyDict(EmptyMap))
        ELSE r2
    ELSE Ret(WatchRet(key, r2.val.value, FALSE, 0, r2.val # PyNone /\ r2.val.dir))

\* the handler of EtcdUtilWatchTimeout: r2 is the outcome of read(key)
WatchFallback(key, r2) ==
    IF r2.tag = "raise" THEN
        IF r2.exc = "EtcdKeyNotFound"
        THEN Ret(WatchRet(key, PyNone, FALSE, 0, FALSE))
        ELSE IF r2.exc = "ValueError" THEN Ret(PyDict(EmptyMap))
        ELSE r2
    ELSE Ret(WatchRet(key, r2.val.value, FALSE, r2.val.modifiedIndex,
                      r2.val # PyNone /\ r2.val.dir))

\* variant: the result always names the watched key
WatchChangedWatchedKey(key, recurse, result) ==
    IF result = PyNone THEN Ret(PyDict(EmptyMap))
    ELSE Ret(WatchRet(key, result.value, TRUE, result.modifiedIndex, result.dir))

\* the long-poll returned result
WatchChanged(key, recurse, result) ==
    IF result = PyNone THEN Ret(PyDict(EmptyMap))
    ELSE Ret(WatchRet(IF recurse THEN result.key ELSE key, result.value,
                      TRUE, result.modifiedIndex, result.dir))

watch(key, recurse, out1, out2) ==
    LET r1 == read(key, TRUE, out1)
    IN  IF r1.tag = "raise" THEN
            IF r1.exc = "EtcdUtilWatchTimeout"
            THEN WatchFallback(key, read(key, FALSE, out2))
            ELSE IF r1.exc \in {"EtcdConnectionFailed", "MaxRetryError"}
            THEN Ret(PyDict(EmptyMap))
            ELSE IF r1.exc = "ValueError" THEN Ret(PyDict(EmptyMap))
            ELSE r1
        ELSE WatchChanged(key, recurse, r1.val)

(* ------------------------------ helpers -------------------------------- *)

Put(f, k, v) == [x \in DOMAIN f \cup {k} |-> IF x = k THEN v ELSE f[x]]

\* dict.update(g)
Merge(f, g) == [x \in DOMAIN f \cup DOMAIN g |-> IF x \in DOMAIN g THEN g[x] ELSE f[x]]

\* the order in which a dict or a listing is iterated
RECURSIVE SetToSeq(_)
SetToSeq(S) == IF S = {} THEN <<>>
               ELSE LET x == CHOOSE y \in S : TRUE IN <<x>> \o SetToSeq(S \ {x})

(* ------------------------------- get, ls, tree ------------------------- *)

\* the except clauses of get
GetExcept(r) ==
    IF r.exc \in {"EtcdKeyNotFound", "EtcdConnectionFailed", "ValueError"}
    THEN Ret(PyNone) ELSE r

\* variant: ls answers a missing key like tree does
LsExceptAllNone(r) ==
    IF r.exc \in {"EtcdKeyNotFound", "ValueError", "EtcdConnectionFailed"}
    THEN Ret(PyNone) ELSE r

\* the except clauses of ls
LsExcept(r) ==
    IF r.exc \in {"EtcdKeyNotFound", "ValueError"} THEN Ret(PyDict(EmptyMap))
    ELSE IF r.exc = "EtcdConnectionFailed" THEN Ret(PyNone)
    ELSE r

\* the except clauses of tree
TreeExcept(r) ==
    IF r.exc \in {"EtcdKeyNotFound", "ValueError"} THEN Ret(PyNone)
    ELSE IF r.exc = "EtcdConnectionFailed" THEN Ret(PyNone)
    ELSE r

RECURSIVE tree(_, _, _, _)
RECURSIVE TreeLoop(_, _, _, _, _, _)

\* the loop of tree over items.children
TreeLoop(st, path, items, sub, ret, reads) ==
    IF items = <<>> THEN [res |-> Ret(PyDict(ret)), reads |-> reads]
    ELSE LET item == Head(items)
             name == LastComp(item.key)
         IN  IF item.dir THEN
                 IF item.key = path
                 THEN TreeLoop(st, path, Tail(items), sub, ret, reads)
                 ELSE LET t == tree(st, item.key, sub, sub)
                      IN  IF t.res.tag = "raise"
                          THEN [res |-> t.res, reads |-> reads \o t.reads]
                          ELSE TreeLoop(st, path, Tail(items), sub,
                                        Put(ret, name, t.res.val), reads \o t.reads)
             ELSE TreeLoop(st, path, Tail(items), sub,
                           Put(ret, name, item.value), reads)

\* net is the transport's condition at the read of path, sub at every read below
tree(st, path, net, sub) ==
    LET out == ClientRead(st, path, net)
        r == read(path, FALSE, out)
        log == <<ReadLog(path, FALSE, FALSE, 0, out)>>
    IN  IF r.tag = "raise" THEN [res |-> TreeExcept(r), reads |-> log]
        ELSE TreeLoop(st, path, SetToSeq(r.val.children), sub, EmptyMap, log)

get(st, key, recurse, net, sub) ==
    IF ~recurse THEN
        LET out == ClientRead(st, key, net)
            r == read(key, recurse, out)
            log == <<ReadLog(key, recurse, FALSE, 0, out)>>
        IN  IF r.tag = "raise" THEN [res |-> GetExcept(r), reads |-> log]
            ELSE [res |-> Ret(r.val.value), reads |-> log]
    ELSE tree(st, key, net, sub)

\* the loop of ls over items.children
RECURSIVE LsLoop(_, _, _)
LsLoop(path, items, ret) ==
    IF items = <<>> THEN ret
    ELSE LET item == Head(items)
         IN  IF item.dir THEN
                 IF item.key = path THEN LsLoop(path, Tail(items), ret)
                 ELSE LsLoop(path, Tail(items), Put(ret, item.key \o <<"/">>, PyDict(EmptyMap)))
             ELSE LsLoop(path, Tail(items), Put(ret, item.key, item.value))

ls(st, path, net) ==
    LET out == ClientRead(st, path, net)
        r == read(path, FALSE, out)
        log == <<ReadLog(path, FALSE, FALSE, 0, out)>>
    IN  IF r.tag = "raise" THEN [res |-> LsExcept(r), reads |-> log]
        ELSE [res |-> Ret(PyDict(Put(EmptyMap, path,
                              PyDict(LsLoop(path, SetToSeq(r.val.children), EmptyMap))))),
              reads |-> log]

(* --------------------------- write and delete -------------------------- *)

WriteFaults == {"EtcdConnectionFailed", "MaxRetryError", "ValueError", "Exception"}

LeafAbove(st, key) == \E a \in Ancestors(key) : a \in DOMAIN st /\ ~st[a].dir

\* the store after key is set: missing directories above it are created
PutNode(st, idx, key, value, dir) ==
    [k \in DOMAIN st \cup {key} \cup Ancestors(key) |->
        IF k = key THEN [dir |-> dir, value |-> value, modifiedIndex |-> idx]
        ELSE IF k \in DOMAIN st THEN st[k]
        ELSE [dir |-> TRUE, value |-> PyNone, modifiedIndex |-> idx]]

\* client.write(key, value, dir=dir): EtcdNotFile when key is a directory,
\* EtcdNotDir when a directory is written over a file or key lies below a
\* file; otherwise the node is set and the index advances
ClientWrite(st, idx, key, value, dir, net) ==
    IF net # "ok" THEN [kind |-> net, store |-> st, index |-> idx]
    ELSE IF key \in DOMAIN st /\ st[key].dir
    THEN [kind |-> "EtcdNotFile", store |-> st, index |-> idx]
    ELSE IF LeafAbove(st, key) \/ (dir /\ key \in DOMAIN st)
    THEN [kind |-> "EtcdNotDir", store |-> st, index |-> idx]
    ELSE [kind |-> "result",
          node |-> [key |-> key, value |-> value, dir |-> dir, modifiedIndex |-> idx + 1],
          store |-> PutNode(st, idx + 1, key, value, dir), index |-> idx + 1]

\* client.delete(key, recursive=recursive): EtcdKeyNotFound when key is
\* absent, EtcdNotFile for a directory without recursive; otherwise key and
\* the nodes below it go and the index advances
ClientDelete(st, idx, key, recursive, net) ==
    IF net # "ok" THEN [kind |-> net, store |-> st, index |-> idx]
    ELSE IF key \notin DOMAIN st
    THEN [kind |-> "EtcdKeyNotFound", store |-> st, index |-> idx]
    ELSE IF st[key].dir /\ ~recursive
    THEN [kind |-> "EtcdNotFile", store |-> st, index |-> idx]
    ELSE [kind |-> "result",
          store |-> [k \in {c \in DOMAIN st : c # key /\ ~IsAncestor(key, c)} |-> st[k]],
          index |-> idx + 1]

WriteLog(key, value, dir, out, res) ==
    [key |-> key, value |-> value, dir |-> dir, out |-> out.kind, res |-> res]

\* the result and the except clauses of write_file
WriteFileResult(out) ==
    IF out.kind = "result" THEN Ret(out.node.value)
    ELSE IF out.kind \in {"EtcdNotFile", "EtcdRootReadOnly", "ValueError"} THEN Ret(PyNone)
    ELSE IF out.kind = "MaxRetryError" THEN Ret(PyNone)
    ELSE Raise(out.kind)

write_file(st, idx, key, value, net) ==
    LET out == ClientWrite(st, idx, key, value, FALSE, net)
        res == WriteFileResult(out)
    IN  [res |-> res, store |-> out.store, index |-> out.index,
         writes |-> <<WriteLog(key, value, FALSE, out, res)>>]

\* variant: an existing directory is reported as an error
WriteDirectoryResultExistsIsError(out) ==
    IF out.kind = "result" THEN Ret(PyBool(out.node.dir))
    ELSE IF out.kind \in {"EtcdNotFile", "EtcdNotDir", "EtcdRootReadOnly", "ValueError"}
    THEN Ret(PyNone)
    ELSE IF out.kind = "MaxRetryError" THEN Ret(PyNone)
    ELSE Raise(out.kind)

\* the result and the except clauses of write_directory
WriteDirectoryResult(out) ==
    IF out.kind = "result" THEN Ret(PyBool(out.node.dir))
    ELSE IF out.kind = "EtcdNotFile" THEN Ret(PyBool(TRUE))
    ELSE IF out.kind \in {"EtcdNotDir", "EtcdRootReadOnly", "ValueError"} THEN Ret(PyNone)
    ELSE IF out.kind = "MaxRetryError" THEN Ret(PyNone)
    ELSE Raise(out.kind)

write_directory(st, idx, key, value, net) ==
    LET out == ClientWrite(st, idx, key, PyNone, TRUE, net)
        res == WriteDirectoryResult(out)
    IN  [res |-> res, store |-> out.store, index |-> out.index,
         writes |-> <<WriteLog(key, PyNone, TRUE, out, res)>>]

write(st, idx, key, value, directory, net) ==
    IF directory THEN write_directory(st, idx, key, value, net)
    ELSE write_file(st, idx, key, value, net)

set(st, idx, key, value, directory, net) == write(st, idx, key, value, directory, net)

\* the result and the except clauses of delete
DeleteResult(out) ==
    IF out.kind = "result" THEN Ret(PyBool(TRUE))
    ELSE IF out.kind \in {"EtcdNotFile", "EtcdRootReadOnly", "EtcdDirNotEmpty",
                          "EtcdKeyNotFound", "ValueError"}
    THEN Ret(PyNone)
    ELSE IF out.kind = "MaxRetryError" THEN Ret(PyNone)
    ELSE Raise(out.kind)

delete(st, idx, key, recursive, net) ==
    LET out == ClientDelete(st, idx, key, recursive, net)
        res == DeleteResult(out)
    IN  [res |-> res, store |-> out.store, index |-> out.index, out |-> out.kind]

rm(st, idx, key, recurse, net) == delete(st, idx, key, recurse, net)

(* --------------------------- _flatten and update ----------------------- *)

\* variant: an empty dict leaves no entry
EmptyDirectoryForgotten(path) == EmptyMap

\* what _flatten returns for a dict without entries
EmptyDirectory(path) == Put(EmptyMap, path, PyDict(EmptyMap))

\* the flat key of entry k below path; path is already stripped
ChildPath(path, k) ==
    IF path # <<>> THEN <<"/">> \o path \o <<"/">> \o Strip(k)
    ELSE <<"/">> \o Strip(k)

RECURSIVE _flatten(_, _)
RECURSIVE FlattenLoop(_, _, _, _)

\* the loop of _flatten over data.items(); path is already stripped
FlattenLoop(data, ks, path, flat) ==
    IF ks = <<>> THEN flat
    ELSE LET v == data[Head(ks)]
             p == ChildPath(path, Head(ks))
         IN  IF IsDict(v)
             THEN FlattenLoop(data, Tail(ks), path, Merge(flat, _flatten(v.dict, p)))
             ELSE FlattenLoop(data, Tail(ks), path, Put(flat, p, v))

_flatten(data, path) ==
    IF DOMAIN data = {} THEN EmptyDirectory(path)
    ELSE FlattenLoop(data, SetToSeq(DOMAIN data), Strip(path), EmptyMap)

\* variant: every entry is written as a file
IsDirEntryNever(v) == FALSE

\* is_dir of an entry of the flattened fields
IsDirEntry(v) == IsDict(v)

\* the loop of update over fields.items(); the i-th write meets the transport
\* in condition fkind when i = fpos
RECURSIVE UpdateLoop(_, _, _, _, _, _, _, _, _)
UpdateLoop(st, idx, flat, ks, i, fpos, fkind, keys, writes) ==
    IF ks = <<>>
    THEN [res |-> Ret(PyDict(keys)), store |-> st, index |-> idx, writes |-> writes]
    ELSE LET k == Head(ks)
             v == flat[k]
             is_dir == IsDirEntry(v)
             w == write(st, idx, k, v, is_dir, IF i = fpos THEN fkind ELSE "ok")
         IN  IF w.res.tag = "raise"
             THEN [res |-> w.res, store |-> w.store, index |-> w.index,
                   writes |-> writes \o w.writes]
             ELSE UpdateLoop(w.store, w.index, flat, Tail(ks), i + 1, fpos, fkind,
                             Put(keys, k, w.res.val), writes \o w.writes)

update(st, idx, fields, path, fpos, fkind) ==
    IF ~IsDict(fields)
    THEN [res |-> Ret(PyNone), store |-> st, index |-> idx, writes |-> <<>>]
    ELSE LET flat == _flatten(fields.dict, path)
         IN  UpdateLoop(st, idx, flat, SetToSeq(DOMAIN flat), 1, fpos, fkind,
                        EmptyMap, <<>>)

(* ------------------------------ machine -------------------------------- *)


Init == /\ store = EmptyMap
        /\ index = 0
        /\ call = [op |-> "none"]
        /\ stored = [op |-> "none"]

\* the client serves one call at a time: every method is synchronous
Idle == call.op = "none"

Watch ==
    /\ Idle
    /\ \E key \in Keys, recurse \in BOOLEAN, waitIndex \in 0..MaxIndex, net \in {"ok"} \cup ReadFaults :
      \E out1 \in ClientWait(store, key, recurse, waitIndex) :
        LET out2 == ClientRead(store, key, net)
            timedOut == out1.kind = "ReadTimeoutError"
        IN  /\ (~timedOut => net = "ok")
            /\ call' = [op |-> "watch", key |-> key, recurse |-> recurse,
                        reads |-> IF timedOut
                                  THEN <<ReadLog(key, recurse, TRUE, waitIndex, out1),
                                         ReadLog(key, FALSE, FALSE, 0, out2)>>
                                  ELSE <<ReadLog(key, recurse, TRUE, waitIndex, out1)>>,
                        result |-> watch(key, recurse, out1, out2)]
            /\ UNCHANGED <<store, index, stored>>

ReadCall ==
    /\ Idle
    /\ \E key \in Keys, wait \in BOOLEAN, net \in {"ok"} \cup ReadFaults :
      LET out == ClientRead(store, key, net)
      IN  /\ call' = [op |-> "read", key |-> key, wait |-> wait,
                      reads |-> <<ReadLog(key, FALSE, wait, 0, out)>>,
                      result |-> read(key, wait, out)]
          /\ UNCHANGED <<store, index, stored>>

Get ==
    /\ Idle
    /\ \E key \in Keys, recurse \in BOOLEAN, net \in {"ok"} \cup ReadFaults,
       sub \in {"ok"} \cup ReadFaults :
      LET g == get(store, key, recurse, net, sub)
      IN  /\ (Len(g.reads) = 1 => sub = "ok")
          /\ call' = [op |-> "get", key |-> key, recurse |-> recurse,
                      reads |-> g.reads, result |-> g.res]
          /\ UNCHANGED <<store, index, stored>>

Ls ==
    /\ Idle
    /\ \E path \in Keys, net \in {"ok"} \cup ReadFaults :
      LET l == ls(store, path, net)
      IN  /\ call' = [op |-> "ls", key |-> path, reads |-> l.reads, result |-> l.res]
          /\ UNCHANGED <<store, index, stored>>

Tree ==
    /\ Idle
    /\ \E path \in Keys, net \in {"ok"} \cup ReadFaults, sub \in {"ok"} \cup ReadFaults :
      LET t == tree(store, path, net, sub)
      IN  /\ (Len(t.reads) = 1 => sub = "ok")
          /\ call' = [op |-> "tree", key |-> path, reads |-> t.reads, result |-> t.res]
          /\ UNCHANGED <<store, index, stored>>

Write ==
    /\ Idle
    /\ \E op \in {"write", "set"}, key \in Keys, value \in Values, directory \in BOOLEAN,
       net \in {"ok"} \cup WriteFaults :
      LET v == IF directory THEN PyNone ELSE PyStr(value)
          w == IF op = "set" THEN set(store, index, key, v, directory, net)
               ELSE write(store, index, key, v, directory, net)
      IN  /\ index < MaxIndex
          /\ (directory => value = CHOOSE x \in Values : TRUE)
          /\ call' = [op |-> op, key |-> key, directory |-> directory,
                      before |-> store, writes |-> w.writes, result |-> w.res]
          /\ store' = w.store
          /\ index' = w.index
          /\ UNCHANGED stored

Delete ==
    /\ Idle
    /\ \E op \in {"delete", "rm"}, key \in Keys, recursive \in BOOLEAN,
       net \in {"ok"} \cup WriteFaults :
      LET d == IF op = "rm" THEN rm(store, index, key, recursive, net)
               ELSE delete(store, index, key, recursive, net)
      IN  /\ index < MaxIndex
          /\ call' = [op |-> op, key |-> key, recursive |-> recursive,
                      before |-> store, out |-> d.out, result |-> d.res]
          /\ store' = d.store
          /\ index' = d.index
          /\ UNCHANGED stored

\* fpos = 0 is an update without a transport fault; a tree of Fields has at
\* most 4 flat entries
Update ==
    /\ Idle
    /\ index < MaxUpdateIndex
    /\ \E fields \in Fields, path \in Keys1, fpos \in 0..4, fkind \in WriteFaults :
      LET u == update(store, index, fields, path, fpos, fkind)
          clean == /\ IsDict(fields)
                   /\ path \notin DOMAIN store
                   /\ u.res.tag = "return"
                   /\ \A i \in 1..Len(u.writes) : u.writes[i].out = "result"
      IN  /\ fpos <= (IF IsDict(fields) THEN Cardinality(DOMAIN _flatten(fields.dict, path)) ELSE 0)
          /\ (fpos = 0 => fkind = "Exception")
          /\ call' = [op |-> "update", fields |-> fields, key |-> path,
                      before |-> store, writes |-> u.writes, result |-> u.res]
          /\ store' = u.store
          /\ index' = u.index
          /\ stored' = IF clean THEN [op |-> "update", fields |-> fields, key |-> path]
                        ELSE IF u.store = store THEN stored
                        ELSE [op |-> "none"]

\* the caller takes the result of the call
Return ==
    /\ ~Idle
    /\ call' = [op |-> "none"]
    /\ UNCHANGED <<store, index, stored>>

Next == Return \/ Watch \/ ReadCall \/ Get \/ Ls \/ Tree \/ Write \/ Delete

Spec == Init /\ [][Next]_vars

\* update followed by tree, for the tree codec
NextUpdate == Return \/ Update \/ Tree

SpecUpdate == Init /\ [][NextUpdate]_vars

(* ------------------------------- claims -------------------------------- *)

EmptyDict == Ret(PyDict(EmptyMap))

IsWatchRet(r) == r.tag = "return" /\ DOMAIN r.val.dict # {}

ConnectionFailure(e) == \/ e.out \in {"EtcdConnectionFailed", "MaxRetryError"}
                        \/ e.out = "ReadTimeoutError" /\ ~e.wait

TimedOutWatch == /\ call.op = "watch"
                 /\ call.reads[1].res = "EtcdUtilWatchTimeout"

\* C1: whenever a transport read issued by watch (the long-poll or the
\* fallback) fails with a connection failure, watch returns {} and does not
\* raise.
C1_WatchConnectionFailureSentinel ==
    (/\ call.op = "watch"
     /\ \E i \in 1..Len(call.reads) : ConnectionFailure(call.reads[i]))
    => call.result = EmptyDict

\* C2 as stated, for a fallback read the transport answers (connection
\* failures of that read are the subject of C1): after a watch timeout watch
\* issues exactly one non-waiting read of key and always returns a result with
\* changed = false and key = key; on key-not-found it is the initial result,
\* otherwise it carries the value, index and directory flag the store holds.
C2_FallbackAlwaysUnchangedResult ==
    (/\ TimedOutWatch
     /\ \A i \in 2..Len(call.reads) :
           call.reads[i].out \in {"result", "EtcdKeyNotFound", "ValueError"}) =>
        /\ Len(call.reads) = 2
        /\ call.reads[2].key = call.key /\ ~call.reads[2].wait
        /\ IsWatchRet(call.result)
        /\ IF call.reads[2].res = "EtcdKeyNotFound"
           THEN call.result = Ret(WatchRet(call.key, PyNone, FALSE, 0, FALSE))
           ELSE /\ call.key \in DOMAIN store
                /\ call.result = Ret(WatchRet(call.key, store[call.key].value, FALSE,
                                              store[call.key].modifiedIndex,
                                              store[call.key].dir))

\* C2 amended: after a watch timeout watch issues exactly one non-waiting read
\* of key; when that read returns the node the result is changed = false with
\* the key, value, index and directory flag the store holds; on key-not-found
\* it is the initial result; on a malformed response watch returns {}.
C2_FallbackResult ==
    TimedOutWatch =>
        /\ Len(call.reads) = 2
        /\ call.reads[2].key = call.key /\ ~call.reads[2].wait
        /\ (call.reads[2].res = "EtcdKeyNotFound" =>
                call.result = Ret(WatchRet(call.key, PyNone, FALSE, 0, FALSE)))
        /\ (call.reads[2].res = "return" =>
                /\ call.key \in DOMAIN store
                /\ call.result = Ret(WatchRet(call.key, store[call.key].value, FALSE,
                                              store[call.key].modifiedIndex,
                                              store[call.key].dir)))
        /\ (call.reads[2].res = "ValueError" => call.result = EmptyDict)

C2_Witness ==
    /\ TimedOutWatch
    /\ call.reads[2].res = "return"
    /\ IsWatchRet(call.result)
    /\ call.result.val.dict.value = PyStr("v2")
    /\ call.result.val.dict.mIndex = 2

\* C3: watch reports changed = true exactly when its long-poll read returned a
\* result r; the result then carries r's value, directory flag and index, and
\* r's key when recurse is set, the watched key otherwise.
C3_WatchChangedResult ==
    call.op = "watch" =>
        LET e == call.reads[1]
            changed == IsWatchRet(call.result) /\ call.result.val.dict.changed
        IN  /\ changed <=> e.out = "result"
            /\ e.out = "result" =>
                 call.result = Ret(WatchRet(IF call.recurse THEN e.got ELSE call.key,
                                            store[e.got].value, TRUE,
                                            store[e.got].modifiedIndex,
                                            store[e.got].dir))

C3_Witness ==
    /\ call.op = "watch"
    /\ call.recurse
    /\ call.reads[1].out = "result"
    /\ call.reads[1].got # call.key
    /\ IsWatchRet(call.result)
    /\ call.result.val.dict.changed
    /\ call.result.val.dict.key = call.reads[1].got

MissingOrUnreachable(e) == e.out = "EtcdKeyNotFound" \/ ConnectionFailure(e)

ReadStyleCall == \/ call.op = "get" /\ ~call.recurse
                 \/ call.op \in {"ls", "tree"}

\* C4 as stated: get, ls and tree return null when their read of the key fails
\* with key-not-found or a connection failure.
C4_ReadStyleNull ==
    (ReadStyleCall /\ MissingOrUnreachable(call.reads[1]))
    => call.result = Ret(PyNone)

\* C4 amended: get and tree return null when their read of the key fails with
\* key-not-found or a connection failure; ls returns null on a connection
\* failure and {} on key-not-found; none of them raises.
C4_ReadStyleSentinel ==
    (ReadStyleCall /\ MissingOrUnreachable(call.reads[1]))
    => IF call.op = "ls" /\ call.reads[1].out = "EtcdKeyNotFound"
       THEN call.result = EmptyDict
       ELSE call.result = Ret(PyNone)

C4_Witness ==
    /\ call.op = "ls"
    /\ call.reads[1].out = "EtcdKeyNotFound"
    /\ call.result = EmptyDict

WriteStyleCall == call.op \in {"write", "set", "delete", "rm"}

TransportOut == IF call.op \in {"write", "set"} THEN call.writes[1].out ELSE call.out

\* C5: write_file, write_directory and delete return null and do not raise
\* when the transport call fails with key-not-found, connection-failed or
\* retry-exhausted.
C5_WriteDeleteNeverRaise ==
    (/\ WriteStyleCall
     /\ TransportOut \in {"EtcdKeyNotFound", "EtcdConnectionFailed", "MaxRetryError"})
    => call.result = Ret(PyNone)

DirectoryWrite == /\ call.op \in {"write", "set"}
                  /\ call.directory
                  /\ call.writes[1].out \in {"result", "EtcdNotFile", "EtcdNotDir"}

IsLeafIn(st, k) == k \in DOMAIN st /\ ~st[k].dir

IsDirIn(st, k) == k \in DOMAIN st /\ st[k].dir

\* C6 as stated: a directory write to a path that is absent or already a
\* directory returns success, and on a directory it leaves the store
\* unchanged; a directory write to a path that holds a leaf returns null.
C6_DirectoryWriteIdempotentAnywhere ==
    DirectoryWrite =>
        /\ ~IsLeafIn(call.before, call.key) =>
              /\ call.result = Ret(PyBool(TRUE))
              /\ IsDirIn(store, call.key)
        /\ IsDirIn(call.before, call.key) => store = call.before
        /\ IsLeafIn(call.before, call.key) =>
              call.result = Ret(PyNone) /\ store = call.before

\* C6 amended: a directory write to a path that is already a directory, or
\* that is absent with no leaf on the way to it, returns success and leaves a
\* directory there, and on a directory it leaves the store unchanged; a
\* directory write to a path that holds a leaf, or lies below one, returns
\* null and leaves the store unchanged.
C6_DirectoryWriteIdempotent ==
    DirectoryWrite =>
        /\ (~IsLeafIn(call.before, call.key) /\ ~LeafAbove(call.before, call.key)) =>
              /\ call.result = Ret(PyBool(TRUE))
              /\ IsDirIn(store, call.key)
        /\ IsDirIn(call.before, call.key) => store = call.before
        /\ (IsLeafIn(call.before, call.key) \/ LeafAbove(call.before, call.key)) =>
              call.result = Ret(PyNone) /\ store = call.before

C6_Witness ==
    /\ DirectoryWrite
    /\ IsDirIn(call.before, call.key)
    /\ call.before[call.key].modifiedIndex = 1
    /\ call.result = Ret(PyBool(TRUE))
    /\ store = call.before

\* C7: the child map ls(path) returns never holds an entry for path itself,
\* whether path is a directory, an empty directory or a leaf.
C7_LsSkipsSelf ==
    (call.op = "ls" /\ call.reads[1].res = "return") =>
        LET kids == call.result.val.dict[call.key].dict
        IN  /\ call.key \notin DOMAIN kids
            /\ (call.key \o <<"/">>) \notin DOMAIN kids

UpdateCall == call.op = "update" /\ IsDict(call.fields)

Flat == _flatten(call.fields.dict, call.key)

ReadingCall == call.op \in {"watch", "read", "get", "ls", "tree"}

\* C10: read raises a transport read-timeout as EtcdUtilWatchTimeout exactly
\* when wait is set and as EtcdConnectionFailed otherwise, raises
\* retry-exhausted as EtcdConnectionFailed, and re-raises key-not-found,
\* connection-failed and malformed-response unchanged; no non-waiting read
\* ends in a watch timeout.
C10_ReadTimeoutDisambiguation ==
    ReadingCall =>
        /\ \A i \in 1..Len(call.reads) :
              LET e == call.reads[i]
              IN  /\ e.res = "EtcdUtilWatchTimeout" <=> (e.out = "ReadTimeoutError" /\ e.wait)
                  /\ (e.out = "ReadTimeoutError" /\ ~e.wait) => e.res = "EtcdConnectionFailed"
                  /\ e.out = "MaxRetryError" => e.res = "EtcdConnectionFailed"
                  /\ e.out \in {"EtcdKeyNotFound", "EtcdConnectionFailed", "ValueError"}
                        => e.res = e.out
        /\ call.op = "read" =>
              /\ call.reads[1].res # "return" => call.result = Raise(call.reads[1].res)
              /\ call.reads[1].res = "return" => call.result.tag = "return"
        /\ call.op \in {"get", "ls", "tree"} => call.result # Raise("EtcdUtilWatchTimeout")

C10_Witness ==
    /\ call.op = "read"
    /\ call.wait
    /\ call.reads[1].out = "ReadTimeoutError"
    /\ call.result = Raise("EtcdUtilWatchTimeout")

====
